---- MODULE Spec2Model ----
(***************************************************************************)
(* Four-bar linkage kinematics (src/services/kinematics.ts).               *)
(*                                                                         *)
(* Numbers are modelled exactly.  A JavaScript number is one of            *)
(*   - a real  (a + b*sqrt(q)) / d  with a, b, q, d integers (k = "num"),  *)
(*   - NaN, +Infinity, -Infinity                      (k = "nan", ...),     *)
(*   - a real outside that form                       (k = "unrep").       *)
(* An angle is  n*pi + acos(c)  with n an integer and c in (-1, 1], so     *)
(* that cos, sin, acos and atan2 are exact on the values the code feeds    *)
(* them.  Rounding of IEEE doubles is not modelled in the solvers; it is   *)
(* modelled in normalizeAngle, on a floating-point format of few bits.     *)
(*                                                                         *)
(* An operator receives the values it uses more than once as parameters,   *)
(* so a function of the source is a short chain of operators, one for each *)
(* group of its lines.                                                     *)
(***************************************************************************)
EXTENDS Integers, Sequences, FiniteSets, TLC

\* ---------------------------------------------------------------- bounds
MaxLen == 4

\* ---------------------------------------------------------------- integers
\* Machine integers of the exact range; Ovf stands for a result outside it
\* and is propagated by every operation.
IntLimit == 31622 * 31622

Ovf == 2 * IntLimit + 1

\* square factors of a radicand are looked for up to this root
MaxRoot == 1000

RECURSIVE GCD(_, _)
GCD(x, y) == IF y = 0 THEN x ELSE GCD(y, x % y)

IAbs(x) == IF x < 0 THEN -x ELSE x

ISign(x) == IF x < 0 THEN -1 ELSE IF x > 0 THEN 1 ELSE 0

\* x * y
IMul(x, y) ==
    IF x = Ovf \/ y = Ovf THEN Ovf
    ELSE IF x = 0 \/ y = 0 THEN 0
    ELSE IF IAbs(x) <= IntLimit \div IAbs(y) THEN x * y ELSE Ovf

\* x + y
IAdd(x, y) ==
    IF x = Ovf \/ y = Ovf THEN Ovf
    ELSE IF x + y > IntLimit \/ x + y < -IntLimit THEN Ovf ELSE x + y

\* x - y
ISub(x, y) ==
    IF x = Ovf \/ y = Ovf THEN Ovf
    ELSE IF x - y > IntLimit \/ x - y < -IntLimit THEN Ovf ELSE x - y

\* floor of the square root of a natural number (Newton iteration)
RECURSIVE IsqrtIter(_, _)
IsqrtIter(n, x) ==
    IF (x + n \div x) \div 2 >= x THEN x ELSE IsqrtIter(n, (x + n \div x) \div 2)

Isqrt(n) == IF n < 2 THEN n ELSE IsqrtIter(n, IF n > 65536 THEN 46340 ELSE 256)

\* ----------------------------------------------------- JavaScript numbers
Special(kind) == [k |-> kind, a |-> 0, b |-> 0, q |-> 1, d |-> 1]

NaN == Special("nan")
PInf == Special("pinf")
NInf == Special("ninf")
Unrep == Special("unrep")

\* (a + b*sqrt(q)) / d for g = gcd(a, b, d): lowest terms, d > 0
Num4(a, b, q, d, g) ==
    [k |-> "num", a |-> ISign(d) * (a \div g), b |-> ISign(d) * (b \div g),
     q |-> q, d |-> IAbs(d) \div g]

Num3(a, b, q, d) ==
    IF a = Ovf \/ b = Ovf \/ d = Ovf \/ d = 0 THEN Unrep
    ELSE Num4(a, b, q, d, GCD(GCD(IAbs(a), IAbs(b)), IAbs(d)))

\* sqrt(q) is folded into a when q is the square of r = Isqrt(q)
Num2(a, b, q, d, r) ==
    Num3(IF b # 0 /\ q # 0 /\ r * r = q THEN IAdd(a, IMul(b, r)) ELSE a,
         IF b = 0 \/ q = 0 \/ r * r = q THEN 0 ELSE b,
         IF b = 0 \/ q = 0 \/ r * r = q THEN 1 ELSE q,
         d)

\* the square divisors s * s of m with s <= r
SqDivisors(m, r) == {s \in 1..r : m % (s * s) = 0}

SetMax(S) == CHOOSE x \in S : \A y \in S : x >= y

\* the largest s <= MaxRoot with s * s dividing m, and Isqrt(m) when m is a square
SqPart(m) ==
    IF m < 4 THEN 1
    ELSE IF Isqrt(m) * Isqrt(m) = m THEN Isqrt(m)
    ELSE SetMax(SqDivisors(m, IF Isqrt(m) < MaxRoot THEN Isqrt(m) ELSE MaxRoot))

Num1(a, b, q, d, s) == Num2(a, IMul(b, s), q \div (s * s), d, Isqrt(q \div (s * s)))

\* the number (a + b*sqrt(q)) / d, q >= 0
Num(a, b, q, d) ==
    IF a = Ovf \/ b = Ovf \/ q = Ovf \/ d = Ovf THEN Unrep
    ELSE Num1(a, b, q, d, SqPart(q))

Int2Num(i) == [k |-> "num", a |-> i, b |-> 0, q |-> 1, d |-> 1]

Zero == Int2Num(0)
One == Int2Num(1)

IsNum(x) == x.k = "num"
IsInf(x) == x.k \in {"pinf", "ninf"}
IsRat(x) == x.k = "num" /\ x.b = 0

\* the sign of a + b*sqrt(q) when a and b have opposite signs
SignC(sa, a2, b2q) ==
    IF a2 = Ovf \/ b2q = Ovf THEN 3
    ELSE IF a2 > b2q THEN sa ELSE IF a2 < b2q THEN -sa ELSE 0

\* sign of a number: -1, 0, 1; 2 for NaN; 3 when it is not known
Sign(x) ==
    IF x.k = "nan" THEN 2
    ELSE IF x.k = "unrep" THEN 3
    ELSE IF x.k = "pinf" THEN 1
    ELSE IF x.k = "ninf" THEN -1
    ELSE IF x.b = 0 THEN ISign(x.a)
    ELSE IF x.a = 0 \/ ISign(x.a) = ISign(x.b) THEN ISign(x.b)
    ELSE SignC(ISign(x.a), IMul(x.a, x.a), IMul(IMul(x.b, x.b), x.q))

\* x rewritten over sqrt(q), for g = gcd(x.q, q) and t the root of
\* p = (x.q / g) * (q / g): sqrt(x.q) = (g * t / q) * sqrt(q)
Over3(x, q, g, p, t) ==
    IF p = Ovf \/ t * t # p THEN Unrep
    ELSE Num3(IMul(x.a, q), IMul(x.b, IMul(g, t)), q, IMul(x.d, q))

Over2(x, q, g, p) == Over3(x, q, g, p, Isqrt(p))

Over1(x, q, g) == Over2(x, q, g, IMul(x.q \div g, q \div g))

Over(x, q) ==
    IF x.k # "num" \/ x.b = 0 \/ x.q = q THEN x ELSE Over1(x, q, GCD(x.q, q))

Neg(x) ==
    IF x.k = "num" THEN [k |-> "num", a |-> -x.a, b |-> -x.b, q |-> x.q, d |-> x.d]
    ELSE IF x.k = "pinf" THEN NInf
    ELSE IF x.k = "ninf" THEN PInf
    ELSE x

\* u + v for two reals over one square root and g = gcd(u.d, v.d)
AddG(u, v, g) ==
    Num(IAdd(IMul(u.a, v.d \div g), IMul(v.a, u.d \div g)),
        IAdd(IMul(u.b, v.d \div g), IMul(v.b, u.d \div g)),
        IF v.b # 0 THEN v.q ELSE u.q, IMul(u.d, v.d \div g))

AddQ(u, v) ==
    IF u.k = "unrep" \/ v.k = "unrep" THEN Unrep ELSE AddG(u, v, GCD(u.d, v.d))

Add(x, y) ==
    IF x.k = "nan" \/ y.k = "nan" THEN NaN
    ELSE IF x.k = "unrep" \/ y.k = "unrep" THEN Unrep
    ELSE IF IsInf(x) THEN (IF IsInf(y) /\ y.k # x.k THEN NaN ELSE x)
    ELSE IF IsInf(y) THEN y
    ELSE AddQ(Over(x, IF y.b # 0 THEN y.q ELSE x.q), y)

Sub(x, y) == Add(x, Neg(y))

\* u * v for two reals over one square root
MulQ(u, v) ==
    IF u.k = "unrep" \/ v.k = "unrep" THEN Unrep
    ELSE Num(IAdd(IMul(u.a, v.a), IMul(IMul(u.b, v.b), IF v.b # 0 THEN v.q ELSE u.q)),
             IAdd(IMul(u.a, v.b), IMul(u.b, v.a)),
             IF v.b # 0 THEN v.q ELSE u.q, IMul(u.d, v.d))

\* b1*sqrt(q1) * b2*sqrt(q2) for g = gcd(q1, q2)
\* with g cancelled against the denominators: g1 = gcd(g, d1), g2 = gcd(g / g1, d2)
MulRad2(x, y, g, g1, g2) ==
    Num(0, IMul(IMul(x.b, y.b), (g \div g1) \div g2), IMul(x.q \div g, y.q \div g),
        IMul(x.d \div g1, y.d \div g2))

MulRad1(x, y, g, g1) == MulRad2(x, y, g, g1, GCD(g \div g1, y.d))

MulRad(x, y, g) == MulRad1(x, y, g, GCD(g, x.d))

\* x * y for two reals
MulR(x, y) ==
    IF x.k = "unrep" \/ y.k = "unrep" THEN Unrep
    ELSE IF x.a = 0 /\ y.a = 0 /\ x.b # 0 /\ y.b # 0
    THEN MulRad(x, y, GCD(x.q, y.q))
    ELSE MulQ(Over(x, IF y.b # 0 THEN y.q ELSE x.q), y)

\* x * y for two numbers and their signs
MulS(x, y, sx, sy) ==
    IF x.k = "nan" \/ y.k = "nan" THEN NaN
    ELSE IF x.k = "unrep" \/ y.k = "unrep" THEN Unrep
    ELSE IF IsInf(x) \/ IsInf(y)
         THEN (IF sx = 3 \/ sy = 3 THEN Unrep
               ELSE IF sx * sy = 0 THEN NaN
               ELSE IF sx * sy > 0 THEN PInf ELSE NInf)
    ELSE MulR(x, y)

Mul(x, y) == MulS(x, y, Sign(x), Sign(y))

\* 1/y for a nonzero real y: d / a, or the conjugate over the norm
Recip(y) ==
    IF y.b = 0 THEN Num(y.d, 0, 1, y.a)
    ELSE Num(IMul(y.d, y.a), IMul(-y.d, y.b), y.q, ISub(IMul(y.a, y.a), IMul(IMul(y.b, y.b), y.q)))

\* x / y for two numbers and their signs
DivS(x, y, sx, sy) ==
    IF x.k = "nan" \/ y.k = "nan" THEN NaN
    ELSE IF x.k = "unrep" \/ y.k = "unrep" \/ sx = 3 \/ sy = 3 THEN Unrep
    ELSE IF IsInf(y) THEN (IF IsInf(x) THEN NaN ELSE Zero)
    ELSE IF sy = 0 THEN (IF sx = 0 THEN NaN ELSE IF sx > 0 THEN PInf ELSE NInf)
    ELSE IF IsInf(x) THEN (IF sx = sy THEN PInf ELSE NInf)
    ELSE MulR(x, Recip(y))

Div(x, y) == DivS(x, y, Sign(x), Sign(y))

\* comparison of two numbers: -1, 0, 1; 2 when one is NaN (every JavaScript
\* comparison is then false); 3 when the order is not known
Cmp(x, y) ==
    IF x.k = "nan" \/ y.k = "nan" THEN 2
    ELSE IF x.k = "unrep" \/ y.k = "unrep" THEN 3
    ELSE IF IsInf(x) \/ IsInf(y)
         THEN (IF x.k = y.k THEN 0 ELSE IF x.k = "pinf" \/ y.k = "ninf" THEN 1 ELSE -1)
    ELSE Sign(Sub(x, y))

Known(x, y) == Cmp(x, y) # 3

Lt(x, y) == Cmp(x, y) = -1

Gt(x, y) == Cmp(x, y) = 1

\* x === y
Eq(x, y) == Cmp(x, y) = 0

Le(x, y) == Cmp(x, y) \in {-1, 0}

Ge(x, y) == Cmp(x, y) \in {0, 1}

\* Math.abs, Math.max, Math.min
AbsS(x, sx) ==
    IF sx = 3 THEN Unrep
    ELSE IF x.k = "ninf" THEN PInf
    ELSE IF IsNum(x) /\ sx < 0 THEN Neg(x) ELSE x

Abs(x) == AbsS(x, Sign(x))

MaxC(x, y, c) ==
    IF c = 2 THEN NaN ELSE IF c = 3 THEN Unrep ELSE IF c = -1 THEN y ELSE x

Max(x, y) == MaxC(x, y, Cmp(x, y))

MinC(x, y, c) ==
    IF c = 2 THEN NaN ELSE IF c = 3 THEN Unrep ELSE IF c = 1 THEN y ELSE x

Min(x, y) == MinC(x, y, Cmp(x, y))

\* the root of a rational x >= 0, for t = SqPart(x.d)
SqrtR(x, t) == Num(0, 1, IMul(x.a, x.d \div (t * t)), IMul(t, x.d \div (t * t)))

\* Math.sqrt; the root of a real with b # 0 is outside the form
SqrtS(x, sx) ==
    IF x.k \in {"nan", "unrep", "pinf"} THEN x
    ELSE IF sx = 3 THEN Unrep
    ELSE IF x.k = "ninf" \/ sx < 0 THEN NaN
    ELSE IF x.b = 0 THEN SqrtR(x, SqPart(x.d))
    ELSE Unrep

Sqrt(x) == SqrtS(x, Sign(x))

\* ---------------------------------------------------------------- angles
\* the angle n*pi + acos(c), c in (-1, 1], in radians or scaled to degrees
Angle(n, c, u) == [n |-> n, c |-> c, u |-> u]

AngleNaN(u) == Angle(0, NaN, u)

\* an angle the model cannot represent exactly
AngleUnrep(u) == Angle(0, Unrep, u)

AngIsNaN(t) == t.c.k = "nan"

AngIsFinite(t) == t.c.k = "num"

\* the literal 0 where the code stores an angle
Rad0 == Angle(0, One, "rad")

\* Math.PI
Pi == Angle(1, One, "rad")

\* the literals 0 and 360 of rockerMin and rockerMax
Deg0 == Angle(0, One, "deg")
Deg360 == Angle(2, One, "deg")

\* Math.cos, Math.sin
Cos(t) == IF t.n % 2 = 0 THEN t.c ELSE Neg(t.c)

Sin(t) ==
    IF t.n % 2 = 0 THEN Sqrt(Sub(One, Mul(t.c, t.c)))
    ELSE Neg(Sqrt(Sub(One, Mul(t.c, t.c))))

\* Math.acos of x for hi = Cmp(x, 1) and lo = Cmp(x, -1): NaN outside [-1, 1]
AcosC(x, hi, lo) ==
    IF hi = 3 \/ lo = 3 THEN AngleUnrep("rad")
    ELSE IF x.k # "num" \/ hi = 1 \/ lo = -1 THEN AngleNaN("rad")
    ELSE IF lo = 0 THEN Pi
    ELSE Angle(0, x, "rad")

Acos(x) == AcosC(x, Cmp(x, One), Cmp(x, Neg(One)))

\* Math.atan2(y, x) with an infinite argument
Atan2Inf(y, x, sy, sx) ==
    IF IsInf(y) /\ IsInf(x)
    THEN Angle(IF sy > 0 THEN 0 ELSE -1, Num(0, sx * sy, 2, 2), "rad")
    ELSE IF IsInf(y) THEN Angle(IF sy > 0 THEN 0 ELSE -1, Zero, "rad")
    ELSE IF sx > 0 THEN Rad0
    ELSE IF sy >= 0 THEN Pi ELSE Angle(-1, One, "rad")

\* Math.atan2(y, x), in (-pi, pi], for the signs of y and x and c = x / |(x, y)|
Atan2C(y, x, sy, sx, c) ==
    IF sy = 2 \/ sx = 2 THEN AngleNaN("rad")
    ELSE IF sy = 3 \/ sx = 3 THEN AngleUnrep("rad")
    ELSE IF IsInf(y) \/ IsInf(x) THEN Atan2Inf(y, x, sy, sx)
    ELSE IF sy = 0 /\ sx = 0 THEN Rad0
    ELSE IF c.k # "num" THEN AngleUnrep("rad")
    ELSE IF sy >= 0 THEN (IF c = Neg(One) THEN Pi ELSE Angle(0, c, "rad"))
    ELSE Angle(-1, Neg(c), "rad")

Atan2(y, x) ==
    Atan2C(y, x, Sign(y), Sign(x), Div(x, Sqrt(Add(Mul(x, x), Mul(y, y)))))

\* Math.PI - t
PiMinus(t) ==
    IF t.c.k # "num" THEN t
    ELSE IF t.c = One THEN Angle(1 - t.n, One, t.u)
    ELSE Angle(-t.n, Neg(t.c), t.u)

\* comparison of two angles for c = Cmp(t.c, s.c): -1, 0, 1; 2 on NaN; 3 when
\* the order is not known
AngCmpC(s, t, c) ==
    IF AngIsNaN(s) \/ AngIsNaN(t) THEN 2
    ELSE IF s.c.k # "num" \/ t.c.k # "num" THEN 3
    ELSE IF s.n < t.n THEN -1
    ELSE IF s.n > t.n THEN 1
    ELSE c

AngCmp(s, t) == AngCmpC(s, t, Cmp(t.c, s.c))

\* a < b, a === b, a <= b on angles of one unit (false on NaN)
AngLt(s, t) == AngCmp(s, t) = -1

AngEq(s, t) == AngCmp(s, t) = 0 /\ s.u = t.u

AngLe(s, t) == AngCmp(s, t) \in {-1, 0}

\* the order of s and t is known
AngKnown(s, t) == AngCmp(s, t) # 3

\* Math.min, Math.max on angles
AngMinC(s, t, c) ==
    IF c = 2 THEN AngleNaN(s.u) ELSE IF c = 3 THEN AngleUnrep(s.u)
    ELSE IF c = 1 THEN t ELSE s

AngMin(s, t) == AngMinC(s, t, AngCmp(s, t))

AngMaxC(s, t, c) ==
    IF c = 2 THEN AngleNaN(s.u) ELSE IF c = 3 THEN AngleUnrep(s.u)
    ELSE IF c = -1 THEN t ELSE s

AngMax(s, t) == AngMaxC(s, t, AngCmp(s, t))

\* (rad * 180) / Math.PI
toDegrees(rad) == Angle(rad.n, rad.c, "deg")

\* ------------------------------------------------------------ kinematics
Point(x, y) == [x |-> x, y |-> y]

\* a link length as a number
L(i) == Int2Num(i)

calculateA(r2, theta2) ==
    Point(Mul(r2, Cos(theta2)), Mul(r2, Sin(theta2)))

\* Math.sqrt(Math.pow(dx, 2) + Math.pow(dy, 2))
Hypot(dx, dy) == Sqrt(Add(Mul(dx, dx), Mul(dy, dy)))

distance(p1, p2) == Hypot(Sub(p2.x, p1.x), Sub(p2.y, p1.y))

MechanismState(A, B, O2, O4, t2, t3, t4, mu, valid) ==
    [A |-> A, B |-> B, O2 |-> O2, O4 |-> O4, theta2 |-> t2, theta3 |-> t3,
     theta4 |-> t4, transmissionAngle |-> mu, isValid |-> valid]

\* a state the model cannot represent exactly
UnrepState ==
    MechanismState(Point(Unrep, Unrep), Point(Unrep, Unrep), Point(Unrep, Unrep),
                   Point(Unrep, Unrep), AngleUnrep("rad"), AngleUnrep("rad"),
                   AngleUnrep("rad"), AngleUnrep("rad"), FALSE)

ExactPoint(p) == p.x.k # "unrep" /\ p.y.k # "unrep"

ExactState(st) ==
    /\ ExactPoint(st.A) /\ ExactPoint(st.B) /\ ExactPoint(st.O2) /\ ExactPoint(st.O4)
    /\ st.theta2.c.k # "unrep" /\ st.theta3.c.k # "unrep"
    /\ st.theta4.c.k # "unrep" /\ st.transmissionAngle.c.k # "unrep"

\* the outcome of the validity gate of solveFourBar is known
ForwardGateKnown(dist_AO4, r3, r4) ==
    /\ Known(dist_AO4, Add(r3, r4))
    /\ Known(dist_AO4, Abs(Sub(r3, r4)))
    /\ Known(dist_AO4, Zero)

\* the gate without the concentric case d = 0
ForwardGate_NoConcentric(dist_AO4, r3, r4) ==
    \/ Gt(dist_AO4, Add(r3, r4))
    \/ Lt(dist_AO4, Abs(Sub(r3, r4)))

\* the gate without the lower bound |r3 - r4|
ForwardGate_NoLower(dist_AO4, r3, r4) ==
    \/ Gt(dist_AO4, Add(r3, r4))
    \/ Eq(dist_AO4, Zero)

\* the validity gate of solveFourBar
ForwardGate(dist_AO4, r3, r4) ==
    \/ Gt(dist_AO4, Add(r3, r4))
    \/ Lt(dist_AO4, Abs(Sub(r3, r4)))
    \/ Eq(dist_AO4, Zero)

\* the candidates with the offsets of one sign in both coordinates
SelectB_SameSign(x2, y2, hx, hy, assemblyMode) ==
    IF assemblyMode = 1 THEN Point(Add(x2, hx), Add(y2, hy))
    ELSE Point(Sub(x2, hx), Sub(y2, hy))

\* the intersection candidate of Circle(A, r3) and Circle(O4, r4) that
\* assemblyMode selects: B1 = (x2 + hx, y2 - hy), B2 = (x2 - hx, y2 + hy)
SelectB(x2, y2, hx, hy, assemblyMode) ==
    IF assemblyMode = 1 THEN Point(Add(x2, hx), Sub(y2, hy))
    ELSE Point(Sub(x2, hx), Add(y2, hy))

\* the state of solveFourBar once B is known
solveFourBar_out(config, theta2, A, dist_AO4, B) ==
    MechanismState(A, B, Point(Zero, Zero), Point(L(config.r1), Zero), theta2,
                   Atan2(Sub(B.y, A.y), Sub(B.x, A.x)),
                   Atan2(Sub(B.y, Zero), Sub(B.x, L(config.r1))),
                   Acos(Max(Neg(One), Min(One,
                       Div(Sub(Add(Mul(L(config.r3), L(config.r3)),
                                   Mul(L(config.r4), L(config.r4))),
                               Mul(dist_AO4, dist_AO4)),
                           Mul(Mul(L(2), L(config.r3)), L(config.r4)))))),
                   TRUE)

\* x2, y2 and the offsets of B1 and B2 from them
solveFourBar_B(config, theta2, A, dist_AO4, a_dist, h) ==
    solveFourBar_out(config, theta2, A, dist_AO4,
        SelectB(Add(A.x, Div(Mul(a_dist, Sub(L(config.r1), A.x)), dist_AO4)),
                Add(A.y, Div(Mul(a_dist, Sub(Zero, A.y)), dist_AO4)),
                Div(Mul(h, Sub(Zero, A.y)), dist_AO4),
                Div(Mul(h, Sub(L(config.r1), A.x)), dist_AO4),
                config.assemblyMode))

solveFourBar_h(config, theta2, A, dist_AO4, a_dist) ==
    solveFourBar_B(config, theta2, A, dist_AO4, a_dist,
        Sqrt(Max(Zero, Sub(Mul(L(config.r3), L(config.r3)), Mul(a_dist, a_dist)))))

\* the triangle inequality on r3, r4 and dist_AO4
solveFourBar_gate(config, theta2, A, dist_AO4) ==
    IF ~ForwardGateKnown(dist_AO4, L(config.r3), L(config.r4)) THEN UnrepState
    ELSE IF ForwardGate(dist_AO4, L(config.r3), L(config.r4))
    THEN MechanismState(A, Point(Zero, Zero), Point(Zero, Zero), Point(L(config.r1), Zero),
                        theta2, Rad0, Rad0, Rad0, FALSE)
    ELSE solveFourBar_h(config, theta2, A, dist_AO4,
             Div(Add(Sub(Mul(L(config.r3), L(config.r3)), Mul(L(config.r4), L(config.r4))),
                     Mul(dist_AO4, dist_AO4)),
                 Mul(L(2), dist_AO4)))

solveFourBar_dist(config, theta2, A) ==
    solveFourBar_gate(config, theta2, A, distance(A, Point(L(config.r1), Zero)))

solveFourBar(config, theta2) ==
    solveFourBar_dist(config, theta2, calculateA(L(config.r2), theta2))

\* ------------------------------------------------------------ classifier
CRANK_ROCKER == "Crank-Rocker"
DOUBLE_CRANK == "Double-Crank (Drag-Link)"
DOUBLE_ROCKER == "Double-Rocker"
CHANGE_POINT == "Change-Point"
TRIPLE_ROCKER == "Triple-Rocker (Non-Grashof)"

\* [r1, r2, r3, r4].sort((a, b) => a - b)
RECURSIVE SortAsc(_)
SortAsc(seq) ==
    IF Len(seq) <= 1 THEN seq
    ELSE LET i == CHOOSE j \in 1..Len(seq) : \A k \in 1..Len(seq) : seq[j] <= seq[k]
         IN  <<seq[i]>> \o SortAsc(SubSeq(seq, 1, i - 1) \o SubSeq(seq, i + 1, Len(seq)))

\* the classifier with a strict Grashof test
getGrashofType_Strict(config) ==
    LET links == SortAsc(<<config.r1, config.r2, config.r3, config.r4>>)
        s == links[1]
        l == links[4]
        p == links[2]
        q == links[3]
        grashof == s + l < p + q
    IN  IF ~grashof THEN TRIPLE_ROCKER
        ELSE IF s + l = p + q THEN CHANGE_POINT
        ELSE IF config.r2 = s THEN CRANK_ROCKER
        ELSE IF config.r1 = s THEN DOUBLE_CRANK
        ELSE DOUBLE_ROCKER

\* the classifier without the Change-Point case
getGrashofType_NoChangePoint(config) ==
    LET links == SortAsc(<<config.r1, config.r2, config.r3, config.r4>>)
        s == links[1]
        l == links[4]
        p == links[2]
        q == links[3]
        grashof == s + l <= p + q
    IN  IF ~grashof THEN TRIPLE_ROCKER
        ELSE IF config.r2 = s THEN CRANK_ROCKER
        ELSE IF config.r1 = s THEN DOUBLE_CRANK
        ELSE DOUBLE_ROCKER

getGrashofType(config) ==
    LET links == SortAsc(<<config.r1, config.r2, config.r3, config.r4>>)
        s == links[1]
        l == links[4]
        p == links[2]
        q == links[3]
        grashof == s + l <= p + q
    IN  IF ~grashof THEN TRIPLE_ROCKER
        ELSE IF s + l = p + q THEN CHANGE_POINT
        ELSE IF config.r2 = s THEN CRANK_ROCKER
        ELSE IF config.r1 = s THEN DOUBLE_CRANK
        ELSE IF config.r3 = s THEN DOUBLE_ROCKER
        ELSE IF config.r4 = s THEN DOUBLE_ROCKER
        ELSE DOUBLE_ROCKER

\* -------------------------------------------------------- inverse solver
\* number | null
Null == [isNull |-> TRUE, val |-> Rad0]

Some(t) == [isNull |-> FALSE, val |-> t]

\* the gate without the lower bound |r2 - r3|
InverseGate_NoLower(dist_O2B, r2, r3) ==
    Gt(dist_O2B, Add(r2, r3))

\* the reachability gate of solveInverseTheta2
InverseGate(dist_O2B, r2, r3) ==
    \/ Gt(dist_O2B, Add(r2, r3))
    \/ Lt(dist_O2B, Abs(Sub(r2, r3)))

\* x2, y2, the candidate A1 and its direction
solveInverseTheta2_A1(Bx, By, dist_O2B, a_dist, h) ==
    Some(Atan2(Sub(Add(Zero, Div(Mul(a_dist, Sub(By, Zero)), dist_O2B)),
                   Div(Mul(h, Sub(Bx, Zero)), dist_O2B)),
               Add(Add(Zero, Div(Mul(a_dist, Sub(Bx, Zero)), dist_O2B)),
                   Div(Mul(h, Sub(By, Zero)), dist_O2B))))

solveInverseTheta2_h(config, Bx, By, dist_O2B, a_dist) ==
    solveInverseTheta2_A1(Bx, By, dist_O2B, a_dist,
        Sqrt(Max(Zero, Sub(Mul(L(config.r2), L(config.r2)), Mul(a_dist, a_dist)))))

solveInverseTheta2_gate(config, Bx, By, dist_O2B) ==
    IF ~Known(dist_O2B, Add(L(config.r2), L(config.r3)))
       \/ ~Known(dist_O2B, Abs(Sub(L(config.r2), L(config.r3))))
    THEN Some(AngleUnrep("rad"))
    ELSE IF InverseGate(dist_O2B, L(config.r2), L(config.r3)) THEN Null
    ELSE solveInverseTheta2_h(config, Bx, By, dist_O2B,
             Div(Add(Sub(Mul(L(config.r2), L(config.r2)), Mul(L(config.r3), L(config.r3))),
                     Mul(dist_O2B, dist_O2B)),
                 Mul(L(2), dist_O2B)))

solveInverseTheta2_dist(config, Bx, By) ==
    solveInverseTheta2_gate(config, Bx, By, Sqrt(Add(Mul(Bx, Bx), Mul(By, By))))

solveInverseTheta2(config, targetTheta4) ==
    solveInverseTheta2_dist(config,
        Add(L(config.r1), Mul(L(config.r4), Cos(targetTheta4))),
        Mul(L(config.r4), Sin(targetTheta4)))

\* -------------------------------------------------------- limit analysis
NoState ==
    [isNull |-> TRUE,
     v |-> MechanismState(Point(Zero, Zero), Point(Zero, Zero), Point(Zero, Zero),
                          Point(Zero, Zero), Rad0, Rad0, Rad0, Rad0, FALSE)]

SomeState(st) == [isNull |-> FALSE, v |-> st]

\* the test with >= in place of >
Unreachable_Ge(cosGamma) == Ge(Abs(cosGamma), One)

\* the collinear extreme is unreachable
Unreachable(cosGamma) == Gt(Abs(cosGamma), One)

\* theta4 mirrored below the ground line
LimitTheta4_Mirrored(gamma, assemblyMode) ==
    IF PiMinus(gamma).c.k # "num" \/ PiMinus(gamma).c = One \/ PiMinus(gamma) = Pi
    THEN PiMinus(gamma)
    ELSE Angle(-1 - PiMinus(gamma).n, Neg(PiMinus(gamma).c), gamma.u)

\* the angle theta4 of a collinear configuration from the interior angle at O4
LimitTheta4(gamma, assemblyMode) == PiMinus(gamma)

calcLimitState_out(config, t4, B, A) ==
    SomeState(MechanismState(A, B, Point(Zero, Zero), Point(L(config.r1), Zero),
                             Atan2(A.y, A.x), Rad0, t4, Rad0, TRUE))

calcLimitState_A(config, t4, B, scale) ==
    calcLimitState_out(config, t4, B, Point(Mul(B.x, scale), Mul(B.y, scale)))

\* the point B and the scale factor of A = scale * B
calcLimitState_B(config, distO2B, t4) ==
    calcLimitState_A(config, t4,
        Point(Add(L(config.r1), Mul(L(config.r4), Cos(t4))),
              Add(Zero, Mul(L(config.r4), Sin(t4)))),
        IF Lt(Abs(Sub(distO2B, Add(L(config.r2), L(config.r3)))), Num(1, 0, 1, 1000))
        THEN Div(L(config.r2), Add(L(config.r2), L(config.r3)))
        ELSE IF Ge(L(config.r2), L(config.r3))
             THEN Div(L(config.r2), Sub(L(config.r2), L(config.r3)))
             ELSE Div(Neg(L(config.r2)), Sub(L(config.r3), L(config.r2))))

calcLimitState_gate(config, distO2B, cosGamma) ==
    IF ~Known(Abs(cosGamma), One) THEN SomeState(UnrepState)
    ELSE IF Unreachable(cosGamma) THEN NoState
    ELSE calcLimitState_B(config, distO2B, LimitTheta4(Acos(cosGamma), config.assemblyMode))

calcLimitState(config, distO2B) ==
    calcLimitState_gate(config, distO2B,
        Div(Sub(Add(Mul(L(config.r1), L(config.r1)), Mul(L(config.r4), L(config.r4))),
                Mul(distO2B, distO2B)),
            Mul(Mul(L(2), L(config.r1)), L(config.r4))))

\* the angle without the clamp to [-1, 1]
getTransAngle_NoClamp(config, dA_O4) ==
    toDegrees(Acos(
        Div(Sub(Add(Mul(L(config.r3), L(config.r3)), Mul(L(config.r4), L(config.r4))),
                Mul(dA_O4, dA_O4)),
            Mul(Mul(L(2), L(config.r3)), L(config.r4)))))

\* the transmission angle at distance dA_O4 between A and O4, in degrees
getTransAngle(config, dA_O4) ==
    toDegrees(Acos(Max(Neg(One), Min(One,
        Div(Sub(Add(Mul(L(config.r3), L(config.r3)), Mul(L(config.r4), L(config.r4))),
                Mul(dA_O4, dA_O4)),
            Mul(Mul(L(2), L(config.r3)), L(config.r4)))))))

\* each limit state kept whenever its own extreme is reachable
calculateLimits_out_Each(s1, s2, ang1, ang2, c, tA, tB) ==
    [hasRockerLimits |-> ~s1.isNull /\ ~s2.isNull,
     rockerMin |-> IF ~s1.isNull /\ ~s2.isNull THEN AngMinC(ang1, ang2, c) ELSE Deg0,
     rockerMax |-> IF ~s1.isNull /\ ~s2.isNull THEN AngMaxC(ang1, ang2, c) ELSE Deg360,
     transmissionMin |-> AngMin(tA, tB),
     transmissionMax |-> AngMax(tA, tB),
     limitStateMin |-> IF s1.isNull \/ s2.isNull THEN s1
                       ELSE IF c = 3 THEN SomeState(UnrepState)
                       ELSE IF c = -1 THEN s1 ELSE s2,
     limitStateMax |-> IF s1.isNull \/ s2.isNull THEN s2
                       ELSE IF c = 3 THEN SomeState(UnrepState)
                       ELSE IF c = -1 THEN s2 ELSE s1]

\* the record returned, for c the order of ang1 and ang2
calculateLimits_out(s1, s2, ang1, ang2, c, tA, tB) ==
    [hasRockerLimits |-> ~s1.isNull /\ ~s2.isNull,
     rockerMin |-> IF ~s1.isNull /\ ~s2.isNull THEN AngMinC(ang1, ang2, c) ELSE Deg0,
     rockerMax |-> IF ~s1.isNull /\ ~s2.isNull THEN AngMaxC(ang1, ang2, c) ELSE Deg360,
     transmissionMin |-> AngMin(tA, tB),
     transmissionMax |-> AngMax(tA, tB),
     limitStateMin |-> IF s1.isNull \/ s2.isNull THEN NoState
                       ELSE IF c = 3 THEN SomeState(UnrepState)
                       ELSE IF c = -1 THEN s1 ELSE s2,
     limitStateMax |-> IF s1.isNull \/ s2.isNull THEN NoState
                       ELSE IF c = 3 THEN SomeState(UnrepState)
                       ELSE IF c = -1 THEN s2 ELSE s1]

calculateLimits_rocker(s1, s2, tA, tB) ==
    calculateLimits_out(s1, s2, toDegrees(s1.v.theta4), toDegrees(s2.v.theta4),
                        AngCmp(toDegrees(s1.v.theta4), toDegrees(s2.v.theta4)), tA, tB)

calculateLimits(config) ==
    calculateLimits_rocker(
        calcLimitState(config, Add(L(config.r2), L(config.r3))),
        calcLimitState(config, Abs(Sub(L(config.r2), L(config.r3)))),
        getTransAngle(config, Abs(Sub(L(config.r1), L(config.r2)))),
        getTransAngle(config, Add(L(config.r1), L(config.r2))))

\* ------------------------------------------------- rounded arithmetic
\* normalizeAngle adds two doubles, and the sum of two doubles is rounded.  It
\* is modelled on binary floating-point numbers with MantBits significant bits
\* (a double has 53), round to nearest, ties to even.  A number is an integer
\* count of units of 1/64.
MantBits == 5

\* the spacing of the numbers of the format around k >= 0
RECURSIVE Quantum(_, _)
Quantum(k, q) == IF k < q * 2^MantBits THEN q ELSE Quantum(k, 2 * q)

\* k >= 0 rounded to a multiple of q
RoundPos(k, q) ==
    IF 2 * (k % q) < q THEN k - (k % q)
    ELSE IF 2 * (k % q) > q THEN k - (k % q) + q
    ELSE IF (k \div q) % 2 = 0 THEN k - (k % q) ELSE k - (k % q) + q

\* the number of the format nearest to k
RoundToFloat(k) ==
    IF k < 0 THEN -RoundPos(-k, Quantum(-k, 1)) ELSE RoundPos(k, Quantum(k, 1))

\* 2 * Math.PI: 2 pi is 402.12 units
TwoPi == RoundToFloat(402)

\* x % y of JavaScript: exact, with the sign of x
JsRem(x, y) == IF x < 0 THEN -((-x) % y) ELSE x % y

\* a += 2 * Math.PI when a < 0
normalizeAngle_add(a) == IF a < 0 THEN RoundToFloat(a + TwoPi) ELSE a

normalizeAngle(x) == normalizeAngle_add(JsRem(x, TwoPi))

\* ----------------------------------------------------------------- inputs
\* INITIAL_CONFIG of the application
INITIAL_CONFIG == [r1 |-> 300, r2 |-> 100, r3 |-> 300, r4 |-> 200, assemblyMode |-> 1]

Lengths == 1..MaxLen

Modes == {1, -1}

\* the configurations of small lengths and the one the application starts in
Configs ==
    [r1 : Lengths, r2 : Lengths, r3 : Lengths, r4 : Lengths, assemblyMode : Modes]
    \cup {INITIAL_CONFIG}

\* input angles in (-pi, pi] whose cosine and sine are rational
TrigCos == {Num(k, 0, 1, 5) : k \in {-4, -3, 0, 3, 4}}

Angles ==
    {Angle(0, c, "rad") : c \in TrigCos \cup {One}}
    \cup {Angle(-1, c, "rad") : c \in TrigCos}
    \cup {Pi}

\* ------------------------------------------------------------------ state
VARIABLES config, op, theta2, mechanismState, targetTheta4, inverse,
          grashofType, limits, roundTrip,
          angle, normalized,
          isPlaying, dragging, requestRef, lastTimeRef, pointerAngle

vars == <<config, op, theta2, mechanismState, targetTheta4, inverse,
          grashofType, limits, roundTrip,
          angle, normalized, isPlaying, dragging, requestRef, lastTimeRef,
          pointerAngle>>

\* the argument and the result of normalizeAngle
floatVars == <<angle, normalized>>

\* the state of the App and MechanismCanvas components besides config and theta2
uiVars == <<isPlaying, dragging, requestRef, lastTimeRef, pointerAngle>>

NoLimits ==
    [hasRockerLimits |-> FALSE, rockerMin |-> Deg0, rockerMax |-> Deg360,
     transmissionMin |-> Deg0, transmissionMax |-> Deg0,
     limitStateMin |-> NoState, limitStateMax |-> NoState]

NoRoundTrip == [m \in Modes |-> NoState.v]

\* no call of normalizeAngle yet
FloatIdle == angle = 0 /\ normalized = 0

\* useState(false), useState(null), useRef(), useRef()
UiIdle ==
    /\ isPlaying = FALSE
    /\ dragging = "null"
    /\ requestRef = FALSE
    /\ lastTimeRef = FALSE
    /\ pointerAngle = Rad0

\* no core operation called yet
CoreIdle ==
    /\ op = "none"
    /\ theta2 = Rad0
    /\ mechanismState = NoState.v
    /\ targetTheta4 = Rad0
    /\ inverse = Null
    /\ grashofType = "none"
    /\ limits = NoLimits
    /\ roundTrip = NoRoundTrip

Init ==
    /\ config \in Configs
    /\ CoreIdle
    /\ FloatIdle
    /\ UiIdle

\* solveFourBar(config, t)
SolveFourBar ==
    /\ op = "none"
    /\ \E t \in Angles :
          /\ theta2' = t
          /\ mechanismState' = solveFourBar(config, t)
    /\ op' = "solveFourBar"
    /\ UNCHANGED <<config, targetTheta4, inverse, grashofType, limits, roundTrip>>
    /\ UNCHANGED <<floatVars, uiVars>>

\* solveInverseTheta2(config, t)
SolveInverseTheta2 ==
    /\ op = "none"
    /\ \E t \in Angles :
          /\ targetTheta4' = t
          /\ inverse' = solveInverseTheta2(config, t)
    /\ op' = "solveInverseTheta2"
    /\ UNCHANGED <<config, theta2, mechanismState, grashofType, limits, roundTrip>>
    /\ UNCHANGED <<floatVars, uiVars>>

\* getGrashofType(config)
GetGrashofType ==
    /\ op = "none"
    /\ grashofType' = getGrashofType(config)
    /\ op' = "getGrashofType"
    /\ UNCHANGED <<config, theta2, mechanismState, targetTheta4, inverse, limits, roundTrip>>
    /\ UNCHANGED <<floatVars, uiVars>>

\* calculateLimits(config)
CalculateLimits ==
    /\ op = "none"
    /\ limits' = calculateLimits(config)
    /\ op' = "calculateLimits"
    /\ UNCHANGED <<config, theta2, mechanismState, targetTheta4, inverse, grashofType,
                   roundTrip>>
    /\ UNCHANGED <<floatVars, uiVars>>

\* an angle whose cosine and sine are rational, as the input angles are
RationalAngle(t) == AngIsFinite(t) /\ IsRat(Cos(t)) /\ IsRat(Sin(t))

\* the forward solver on the angle inv that the inverse solver returned
RoundTripWith(inv) ==
    /\ inv.isNull \/ RationalAngle(inv.val)
    /\ inverse' = inv
    /\ roundTrip' = IF inv.isNull THEN NoRoundTrip
                    ELSE [m \in Modes |->
                            solveFourBar([config EXCEPT !.assemblyMode = m], inv.val)]

\* the output angle of a valid state is fed to the inverse solver and the
\* angle it returns to the forward solver, in both assembly modes
RoundTrip ==
    /\ op = "solveFourBar"
    /\ mechanismState.isValid
    /\ RationalAngle(mechanismState.theta4)
    /\ RoundTripWith(solveInverseTheta2(config, mechanismState.theta4))
    /\ targetTheta4' = mechanismState.theta4
    /\ op' = "roundTrip"
    /\ UNCHANGED <<config, theta2, mechanismState, grashofType, limits>>
    /\ UNCHANGED <<floatVars, uiVars>>

Next ==
    \/ SolveFourBar
    \/ SolveInverseTheta2
    \/ GetGrashofType
    \/ CalculateLimits
    \/ RoundTrip

Spec == Init /\ [][Next]_vars

\* ------------------------------------------------ normalizeAngle alone
\* the arguments of normalizeAngle: the numbers of the format up to MaxAngle
MaxAngle == 1024

FloatInputs == {k \in -MaxAngle..MaxAngle : RoundToFloat(k) = k}

\* normalizeAngle(x)
NormalizeAngle ==
    /\ op = "none"
    /\ \E x \in FloatInputs :
          /\ angle' = x
          /\ normalized' = normalizeAngle(x)
    /\ op' = "normalizeAngle"
    /\ UNCHANGED <<config, theta2, mechanismState, targetTheta4, inverse, grashofType,
                   limits, roundTrip, uiVars>>

InitNormalize ==
    /\ config = INITIAL_CONFIG
    /\ CoreIdle
    /\ FloatIdle
    /\ UiIdle

SpecNormalize == InitNormalize /\ [][NormalizeAngle]_vars

\* ------------------------------------------------- interactive wrapper
\* The App component holds config, theta2 and isPlaying, the canvas holds
\* dragging.  requestRef is true while an animation frame is requested,
\* lastTimeRef while the time of the last frame is known.  op names the last
\* event and pointerAngle the angle the last pointer move computed from the
\* pointer position.  mechanismState, grashofType and limits are recomputed
\* from config and theta2 on every render and are not part of this state.

\* useState(1.57): acos(1/1256) = 1.5700002
InitialTheta2 == Angle(0, Num(1, 0, 1, 1256), "rad")

\* configurations the control panel can set
UiConfigs == {INITIAL_CONFIG, [r1 |-> 1, r2 |-> 1, r3 |-> 1, r4 |-> 1, assemblyMode |-> 1]}

\* angles of the pointer about O2 or O4: 0, pi/2, pi, -pi/2
PointerAngles == {Rad0, Angle(0, Zero, "rad"), Pi, Angle(-1, Zero, "rad")}

\* values of (prev + deltaTime * speed) % (2 * Math.PI), deltaTime being any time
FrameAngles == {Rad0, Angle(0, Zero, "rad"), Pi}

coreRest == <<mechanismState, targetTheta4, inverse, grashofType, limits, roundTrip>>

\* handleConfigChange
ConfigChange ==
    /\ \E c \in UiConfigs : config' = c
    /\ op' = "configChange"
    /\ UNCHANGED <<theta2, coreRest, floatVars, uiVars>>

\* onTogglePlay
TogglePlay ==
    /\ isPlaying' = ~isPlaying
    /\ op' = "togglePlay"
    /\ UNCHANGED <<config, theta2, dragging, requestRef, lastTimeRef, pointerAngle,
                   coreRest, floatVars>>

\* the effect on [isPlaying, speed], run after a render that changed isPlaying
Effect ==
    /\ isPlaying # requestRef
    /\ requestRef' = isPlaying
    /\ lastTimeRef' = IF isPlaying THEN lastTimeRef ELSE FALSE
    /\ op' = "effect"
    /\ UNCHANGED <<config, theta2, isPlaying, dragging, pointerAngle, coreRest, floatVars>>

\* animate, called for a requested frame
Animate ==
    /\ requestRef
    /\ IF lastTimeRef THEN \E t \in FrameAngles : theta2' = t ELSE theta2' = theta2
    /\ lastTimeRef' = TRUE
    /\ requestRef' = TRUE
    /\ op' = "animate"
    /\ UNCHANGED <<config, isPlaying, dragging, pointerAngle, coreRest, floatVars>>

\* handlePointerDown(joint)
PointerDown ==
    /\ \E joint \in {"A", "B"} : dragging' = joint
    /\ op' = "pointerDown"
    /\ UNCHANGED <<config, theta2, isPlaying, requestRef, lastTimeRef, pointerAngle,
                   coreRest, floatVars>>

\* handlePointerUp
PointerUp ==
    /\ dragging' = "null"
    /\ op' = "pointerUp"
    /\ UNCHANGED <<config, theta2, isPlaying, requestRef, lastTimeRef, pointerAngle,
                   coreRest, floatVars>>

\* the test without !isNaN(newTheta2)
Delivers_NoNaNTest(newTheta2) == ~newTheta2.isNull

\* newTheta2 !== null && !isNaN(newTheta2)
Delivers(newTheta2) == ~newTheta2.isNull /\ ~AngIsNaN(newTheta2.val)

\* onTheta2Change(val)
onTheta2Change(val) ==
    /\ theta2' = val
    /\ isPlaying' = FALSE

\* the branch dragging === 'B' for newTheta2 = solveInverseTheta2(config, angleT4)
handlePointerMove_B(newTheta2) ==
    IF Delivers(newTheta2) THEN onTheta2Change(newTheta2.val)
    ELSE UNCHANGED <<theta2, isPlaying>>

\* handlePointerMove while a joint is dragged
PointerMove ==
    /\ dragging # "null"
    /\ \E t \in PointerAngles :
          /\ pointerAngle' = t
          /\ IF dragging = "A" THEN onTheta2Change(t)
             ELSE handlePointerMove_B(solveInverseTheta2(config, t))
    /\ op' = IF dragging = "A" THEN "dragA" ELSE "dragB"
    /\ UNCHANGED <<config, dragging, requestRef, lastTimeRef, coreRest, floatVars>>

InitUi ==
    /\ config = INITIAL_CONFIG
    /\ op = "none"
    /\ theta2 = InitialTheta2
    /\ mechanismState = NoState.v
    /\ targetTheta4 = Rad0
    /\ inverse = Null
    /\ grashofType = "none"
    /\ limits = NoLimits
    /\ roundTrip = NoRoundTrip
    /\ FloatIdle
    /\ UiIdle

NextUi ==
    \/ ConfigChange
    \/ TogglePlay
    \/ Effect
    \/ Animate
    \/ PointerDown
    \/ PointerUp
    \/ PointerMove

SpecUi == InitUi /\ [][NextUi]_vars

\* ------------------------------------------- callers of any configuration
\* The exported functions take any numbers as lengths.
MaxAnyLen == 1

AnyLengths == {-1, 0} \cup 1..MaxAnyLen

AnyConfigs ==
    [r1 : AnyLengths, r2 : AnyLengths, r3 : AnyLengths, r4 : AnyLengths,
     assemblyMode : Modes]

InitAny ==
    /\ config \in AnyConfigs
    /\ CoreIdle
    /\ FloatIdle
    /\ UiIdle

SpecAny == InitAny /\ [][Next]_vars

\* ------------------------------------------------------------ properties
PointEq(p1, p2) == Eq(p1.x, p2.x) /\ Eq(p1.y, p2.y)

Sq(x) == Mul(x, x)

\* |A - O4|^2 by the law of cosines in the triangle O2, A, O4
DistAO4Sq(c, t) ==
    Sub(Add(Sq(L(c.r1)), Sq(L(c.r2))),
        Mul(Mul(Int2Num(2), Mul(L(c.r1), L(c.r2))), Cos(t)))

\* C1: solveFourBar returns isValid = false exactly when d = |A - O4| is 0,
\* exceeds r3 + r4 or is below |r3 - r4|; the invalid state has B = (0,0) and
\* theta3 = theta4 = transmissionAngle = 0
C1_ValidityGate ==
    op = "solveFourBar" =>
        LET d2 == DistAO4Sq(config, theta2)
            closed == /\ Sign(d2) # 0
                      /\ Le(d2, Sq(L(config.r3 + config.r4)))
                      /\ Ge(d2, Sq(L(config.r3 - config.r4)))
        IN  /\ ExactState(mechanismState)
            /\ mechanismState.isValid = closed
            /\ ~mechanismState.isValid =>
                  /\ mechanismState.B = Point(Zero, Zero)
                  /\ mechanismState.theta3 = Rad0
                  /\ mechanismState.theta4 = Rad0
                  /\ mechanismState.transmissionAngle = Rad0

\* an invalid state of the concentric case d = 0
C1_Witness ==
    /\ op = "solveFourBar"
    /\ ~mechanismState.isValid
    /\ config.r1 = config.r2 /\ theta2 = Rad0
    /\ mechanismState.B = Point(Zero, Zero)

\* C2: in every valid state the joints close the loop: |A - O2| = r2,
\* |B - A| = r3, |B - O4| = r4, with O2 = (0,0) and O4 = (r1,0)
C2_LoopClosure ==
    (op = "solveFourBar" /\ mechanismState.isValid) =>
        /\ ExactState(mechanismState)
        /\ PointEq(mechanismState.O2, Point(Zero, Zero))
        /\ PointEq(mechanismState.O4, Point(L(config.r1), Zero))
        /\ Eq(distance(mechanismState.A, mechanismState.O2), L(config.r2))
        /\ Eq(distance(mechanismState.B, mechanismState.A), L(config.r3))
        /\ Eq(distance(mechanismState.B, mechanismState.O4), L(config.r4))

\* a valid state whose joint B has irrational coordinates, in crossed mode
C2_Witness ==
    /\ op = "solveFourBar"
    /\ mechanismState.isValid
    /\ config.assemblyMode = -1
    /\ ~IsRat(mechanismState.B.x) /\ ~IsRat(mechanismState.B.y)

SetMin(S) == CHOOSE x \in S : \A y \in S : x <= y

LinkSet(c) == {c.r1, c.r2, c.r3, c.r4}

\* s + l - (p + q) for the shortest, longest and middle two links
GrashofMargin(c) ==
    2 * (SetMin(LinkSet(c)) + SetMax(LinkSet(c))) - (c.r1 + c.r2 + c.r3 + c.r4)

\* C3: getGrashofType is Triple-Rocker when s + l > p + q, Change-Point when
\* s + l = p + q, otherwise Crank-Rocker when r2 is the shortest link,
\* Double-Crank when r1 is, Double-Rocker when r3 or r4 is; {300,100,300,200}
\* is Crank-Rocker and {100,100,100,100} is Change-Point
C3_Classifier ==
    /\ op = "getGrashofType" =>
        LET m == GrashofMargin(config)
            s == SetMin(LinkSet(config))
        IN  /\ (grashofType = TRIPLE_ROCKER) = (m > 0)
            /\ (grashofType = CHANGE_POINT) = (m = 0)
            /\ (grashofType = CRANK_ROCKER) = (m < 0 /\ config.r2 = s)
            /\ (grashofType = DOUBLE_CRANK) = (m < 0 /\ config.r1 = s)
            /\ (grashofType = DOUBLE_ROCKER) = (m < 0 /\ (config.r3 = s \/ config.r4 = s))
    /\ getGrashofType(INITIAL_CONFIG) = CRANK_ROCKER
    /\ getGrashofType([r1 |-> 100, r2 |-> 100, r3 |-> 100, r4 |-> 100,
                       assemblyMode |-> 1]) = CHANGE_POINT

\* a configuration classified Double-Crank
C3_Witness ==
    /\ op = "getGrashofType"
    /\ grashofType = DOUBLE_CRANK
    /\ config.r1 < config.r2 /\ config.r1 < config.r3 /\ config.r1 < config.r4

\* C4: a configuration classified Crank-Rocker or Double-Crank is valid at
\* every input angle, in both assembly modes
C4_CrankRotatesFully ==
    (op = "solveFourBar" /\ getGrashofType(config) \in {CRANK_ROCKER, DOUBLE_CRANK}) =>
        mechanismState.isValid

\* a crank-rocker at the input angle pi, where A is farthest from O4
C4_Witness ==
    /\ op = "solveFourBar"
    /\ getGrashofType(config) = CRANK_ROCKER
    /\ theta2 = Pi
    /\ mechanismState.isValid

\* one link is longer than the other three together
OneLinkTooLong(c) ==
    \E x \in LinkSet(c) : 2 * x > c.r1 + c.r2 + c.r3 + c.r4

\* C5: when one link is longer than the sum of the other three the forward
\* solver reports isValid = false at every input angle
C5_OpenChainInvalid ==
    (op = "solveFourBar" /\ OneLinkTooLong(config)) => ~mechanismState.isValid

\* the coupler is the long link: the gate is d < |r3 - r4|
C5_Witness ==
    /\ op = "solveFourBar"
    /\ config.r3 > config.r1 + config.r2 + config.r4
    /\ ~mechanismState.isValid

\* the configuration in the other assembly mode
Flip(c) == [c EXCEPT !.assemblyMode = -c.assemblyMode]

\* |B - O2|^2 for B = O4 + r4 (cos t, sin t), by the law of cosines in the
\* triangle O2, O4, B
DistO2BSq(c, t) ==
    Add(Add(Sq(L(c.r1)), Sq(L(c.r4))),
        Mul(Mul(Int2Num(2), Mul(L(c.r1), L(c.r4))), Cos(t)))

\* B = O4 + r4 (cos t, sin t)
RockerTip(c, t) == Point(Add(L(c.r1), Mul(L(c.r4), Cos(t))), Mul(L(c.r4), Sin(t)))

C7_RoundTrip ==
    op = "roundTrip" =>
        /\ ~inverse.isNull
        /\ \E m \in Modes :
              /\ roundTrip[m].isValid
              /\ PointEq(roundTrip[m].B, mechanismState.B)

\* the extreme at O2-B distance dist needs a cosine in [-1, 1]
CosineInRange(c, dist) ==
    IAbs(c.r1 * c.r1 + c.r4 * c.r4 - dist * dist) <= 2 * c.r1 * c.r4

\* both collinear extremes are reachable
BothExtremes(c) ==
    /\ c.r2 + c.r3 <= c.r1 + c.r4
    /\ IAbs(c.r2 - c.r3) >= IAbs(c.r1 - c.r4)

\* C8 as stated: hasRockerLimits is false exactly for the configurations
\* classified Crank-Rocker or Double-Crank
C8_NoLimitsIffCrank ==
    op = "calculateLimits" =>
        (~limits.hasRockerLimits) = (getGrashofType(config) \in {CRANK_ROCKER, DOUBLE_CRANK})

\* C8: hasRockerLimits is false exactly when one of the two collinear extremes
\* (O2-B distance r2 + r3 or |r2 - r3|) needs a cosine outside [-1, 1], that is
\* when r2 + r3 > r1 + r4 or |r2 - r3| < |r1 - r4|; it is false for every
\* Double-Crank and true for every Crank-Rocker; without limits rockerMin,
\* rockerMax and the limit states keep their defaults 0, 360 and null
C8_NoLimitsIffUnreachable ==
    op = "calculateLimits" =>
        /\ limits.hasRockerLimits =
              (/\ CosineInRange(config, config.r2 + config.r3)
               /\ CosineInRange(config, IAbs(config.r2 - config.r3)))
        /\ limits.hasRockerLimits = BothExtremes(config)
        /\ getGrashofType(config) = DOUBLE_CRANK => ~limits.hasRockerLimits
        /\ getGrashofType(config) = CRANK_ROCKER => limits.hasRockerLimits
        /\ ~limits.hasRockerLimits =>
              /\ limits.rockerMin = Deg0
              /\ limits.rockerMax = Deg360
              /\ limits.limitStateMin = NoState
              /\ limits.limitStateMax = NoState

\* a crank-rocker, whose rocker has both limits
C8_Witness ==
    /\ op = "calculateLimits"
    /\ getGrashofType(config) = CRANK_ROCKER
    /\ limits.hasRockerLimits
    /\ ~limits.limitStateMin.isNull

\* theta4 in [0, 180] degrees of the collinear configuration at O2-B distance
\* dist: dist^2 = r1^2 + r4^2 + 2 r1 r4 cos(theta4)
CollinearTheta4(c, dist) ==
    IF dist * dist - c.r1 * c.r1 - c.r4 * c.r4 = -2 * c.r1 * c.r4
    THEN Angle(1, One, "deg")
    ELSE Angle(0, Num(dist * dist - c.r1 * c.r1 - c.r4 * c.r4, 0, 1, 2 * c.r1 * c.r4), "deg")

\* C9: when hasRockerLimits is true, rockerMin and rockerMax are the sorted
\* pair of the theta4 values of the two collinear configurations in degrees,
\* 0 <= rockerMin <= rockerMax < 360, rockerMin is theta4 of limitStateMin and
\* rockerMax is theta4 of limitStateMax; {300,100,300,200} has limits with
\* rockerMin < rockerMax
C9_RockerRange ==
    /\ (op = "calculateLimits" /\ limits.hasRockerLimits) =>
          LET ext == CollinearTheta4(config, config.r2 + config.r3)
              ret == CollinearTheta4(config, IAbs(config.r2 - config.r3))
          IN  /\ AngLe(Deg0, limits.rockerMin)
              /\ AngLe(limits.rockerMin, limits.rockerMax)
              /\ AngLt(limits.rockerMax, Deg360)
              /\ ~limits.limitStateMin.isNull /\ ~limits.limitStateMax.isNull
              /\ limits.rockerMin = toDegrees(limits.limitStateMin.v.theta4)
              /\ limits.rockerMax = toDegrees(limits.limitStateMax.v.theta4)
              /\ \/ limits.rockerMin = ext /\ limits.rockerMax = ret
                 \/ limits.rockerMin = ret /\ limits.rockerMax = ext
              /\ Eq(distance(limits.limitStateMin.v.B, limits.limitStateMin.v.O4),
                    L(config.r4))
              /\ Eq(distance(limits.limitStateMax.v.B, limits.limitStateMax.v.O4),
                    L(config.r4))
    /\ (op = "calculateLimits" /\ config = INITIAL_CONFIG) =>
          /\ limits.hasRockerLimits
          /\ AngLt(limits.rockerMin, limits.rockerMax)

\* limits with rockerMin < rockerMax, in crossed mode
C9_Witness ==
    /\ op = "calculateLimits"
    /\ limits.hasRockerLimits
    /\ config.assemblyMode = -1
    /\ AngLt(limits.rockerMin, limits.rockerMax)

\* the interior angle at O4 of a limit state is neither 0 nor pi
InteriorAngleOpen(st) == st.theta4 # Rad0 /\ st.theta4 # Pi

\* C10: for the same four lengths the limit states of the two assembly modes
\* (B, theta4, rockerMin, rockerMax) differ whenever the interior angle at O4 is
\* not 0 or pi
C10_LimitsDependOnMode ==
    (/\ op = "calculateLimits"
     /\ limits.hasRockerLimits
     /\ InteriorAngleOpen(limits.limitStateMin.v)
     /\ InteriorAngleOpen(limits.limitStateMax.v)) =>
        /\ calculateLimits(Flip(config)).limitStateMin.v.B # limits.limitStateMin.v.B
        /\ calculateLimits(Flip(config)).limitStateMin.v.theta4
              # limits.limitStateMin.v.theta4
        /\ calculateLimits(Flip(config)).rockerMin # limits.rockerMin
        /\ calculateLimits(Flip(config)).rockerMax # limits.rockerMax

IMax(x, y) == IF x >= y THEN x ELSE y

IMin(x, y) == IF x <= y THEN x ELSE y

\* the least and the greatest distance between A and O4 that both the pair
\* r1, r2 and the pair r3, r4 allow
DMin(c) == IMax(IAbs(c.r1 - c.r2), IAbs(c.r3 - c.r4))

DMax(c) == IMin(c.r1 + c.r2, c.r3 + c.r4)

\* the angle in [0, 180] degrees between r3 and r4 in the triangle A, B, O4 with
\* |A - O4| = d: acos((r3^2 + r4^2 - d^2) / (2 r3 r4)), for |r3 - r4| <= d <= r3 + r4
LawOfCosines(c, d) ==
    IF c.r3 * c.r3 + c.r4 * c.r4 - d * d = -2 * c.r3 * c.r4
    THEN Angle(1, One, "deg")
    ELSE Angle(0, Num(c.r3 * c.r3 + c.r4 * c.r4 - d * d, 0, 1, 2 * c.r3 * c.r4), "deg")

\* C11: when dMin = max(|r1 - r2|, |r3 - r4|) <= dMax = min(r1 + r2, r3 + r4),
\* transmissionMin is the law-of-cosines angle at d = dMin and transmissionMax
\* the one at d = dMax, in degrees, and transmissionMin <= transmissionMax
C11_TransmissionRange ==
    (op = "calculateLimits" /\ DMin(config) <= DMax(config)) =>
        /\ limits.transmissionMin = LawOfCosines(config, DMin(config))
        /\ limits.transmissionMax = LawOfCosines(config, DMax(config))
        /\ AngLe(limits.transmissionMin, limits.transmissionMax)
        /\ AngLe(Deg0, limits.transmissionMin)
        /\ AngLe(limits.transmissionMax, Angle(1, One, "deg"))

\* both distances |r1 - r2| and r1 + r2 lie outside [|r3 - r4|, r3 + r4], so
\* both angles come from the clamp
C11_Witness ==
    /\ op = "calculateLimits"
    /\ DMin(config) < DMax(config)
    /\ IAbs(config.r1 - config.r2) < IAbs(config.r3 - config.r4)
    /\ config.r1 + config.r2 > config.r3 + config.r4
    /\ limits.transmissionMin = Deg0
    /\ limits.transmissionMax = Angle(1, One, "deg")

\* C12: when max(|r1 - r2|, |r3 - r4|) > min(r1 + r2, r3 + r4), transmissionMin
\* and transmissionMax are both NaN
C12_ImpossibleIsNaN ==
    (op = "calculateLimits" /\ DMin(config) > DMax(config)) =>
        /\ AngIsNaN(limits.transmissionMin)
        /\ AngIsNaN(limits.transmissionMax)

\* a length is zero or negative
Malformed(c) == c.r1 <= 0 \/ c.r2 <= 0 \/ c.r3 <= 0 \/ c.r4 <= 0

\* C13: on a configuration with a zero or negative length none of solveFourBar,
\* solveInverseTheta2, getGrashofType, calculateLimits returns a result
C13_MalformedRejected ==
    Malformed(config) =>
        op \notin {"solveFourBar", "solveInverseTheta2", "getGrashofType", "calculateLimits"}

\* C14: normalizeAngle(x) lies in [0, 2 pi) for every x; 2 pi is never returned
C14_NormalizeRange ==
    op = "normalizeAngle" => (0 <= normalized /\ normalized < TwoPi)

FinitePoint(p) == IsNum(p.x) /\ IsNum(p.y)

\* st closes the loop of c with O2, A and B on one line
ClosedCollinear(c, st) ==
    /\ st.isValid
    /\ FinitePoint(st.A) /\ FinitePoint(st.B)
    /\ PointEq(st.O2, Point(Zero, Zero))
    /\ Eq(distance(st.A, st.O2), L(c.r2))
    /\ Eq(distance(st.B, st.A), L(c.r3))
    /\ Eq(distance(st.B, st.O4), L(c.r4))
    /\ Eq(Mul(st.A.x, st.B.y), Mul(st.A.y, st.B.x))

\* C15: every limit state returned by calculateLimits is flagged valid and is a
\* closed collinear configuration: A and B finite, |A - O2| = r2, |B - A| = r3,
\* |B - O4| = r4, and O2, A, B on one line; r2 = r3 and r2 < r3 included
C15_LimitStatesClosed ==
    (op = "calculateLimits" /\ limits.hasRockerLimits) =>
        /\ ClosedCollinear(config, limits.limitStateMin.v)
        /\ ClosedCollinear(config, limits.limitStateMax.v)

\* C16: limitStateMin and limitStateMax are both present or both absent, and
\* present exactly when hasRockerLimits is true; when either collinear extreme
\* is unreachable, the other one reachable or not, both are absent and
\* rockerMin, rockerMax keep the defaults 0 and 360
C16_LimitStatesTogether ==
    op = "calculateLimits" =>
        /\ limits.limitStateMin.isNull = limits.limitStateMax.isNull
        /\ limits.hasRockerLimits = ~limits.limitStateMin.isNull
        /\ (\/ ~CosineInRange(config, config.r2 + config.r3)
            \/ ~CosineInRange(config, IAbs(config.r2 - config.r3))) =>
              /\ limits.limitStateMin = NoState
              /\ limits.limitStateMax = NoState
              /\ ~limits.hasRockerLimits
              /\ limits.rockerMin = Deg0
              /\ limits.rockerMax = Deg360
        /\ limits.hasRockerLimits =>
              {limits.limitStateMin, limits.limitStateMax}
                  = {calcLimitState(config, L(config.r2 + config.r3)),
                     calcLimitState(config, L(IAbs(config.r2 - config.r3)))}

\* the folded extreme is reachable and the extended one is not
C16_Witness ==
    /\ op = "calculateLimits"
    /\ ~CosineInRange(config, config.r2 + config.r3)
    /\ CosineInRange(config, IAbs(config.r2 - config.r3))
    /\ ~calcLimitState(config, L(IAbs(config.r2 - config.r3))).isNull
    /\ limits.limitStateMin.isNull /\ limits.limitStateMax.isNull

\* C17: whenever solveInverseTheta2 does not return null it returns a finite
\* angle, the target B = O2 (distance 0, when r1 = r4 and r2 = r3) included
C17_InverseFiniteOrNull ==
    (op = "solveInverseTheta2" /\ ~inverse.isNull) =>
        /\ AngIsFinite(inverse.val)
        /\ AngLt(Angle(-1, One, "rad"), inverse.val)
        /\ AngLe(inverse.val, Pi)

\* C18: a drag of joint B whose target angle the inverse solver reports as null
\* or NaN leaves theta2 and isPlaying unchanged; a drag of joint A, and a drag
\* of joint B with a reachable target, set theta2 to the new angle and
\* isPlaying to false
C18_DragFrame ==
    [][/\ (op' = "dragB" /\ (\/ solveInverseTheta2(config, pointerAngle').isNull
                            \/ AngIsNaN(solveInverseTheta2(config, pointerAngle').val))) =>
              (theta2' = theta2 /\ isPlaying' = isPlaying)
       /\ (op' = "dragB" /\ ~solveInverseTheta2(config, pointerAngle').isNull
                         /\ ~AngIsNaN(solveInverseTheta2(config, pointerAngle').val)) =>
              (theta2' = solveInverseTheta2(config, pointerAngle').val /\ ~isPlaying')
       /\ op' = "dragA" => (theta2' = pointerAngle' /\ ~isPlaying')
      ]_vars

\* the animation is playing after a drag of B to a target the solver answered
\* with NaN
C18_Witness ==
    /\ op = "dragB"
    /\ isPlaying
    /\ ~solveInverseTheta2(config, pointerAngle).isNull
    /\ AngIsNaN(solveInverseTheta2(config, pointerAngle).val)

====
